---- MODULE Spec2Model ----
(***************************************************************************)
(* The branch-backed metadata store of claudestep (GitHubMetadataStore),   *)
(* the prepare driver that updates it, and the GitHub file read helper     *)
(* get_file_from_branch.                                                   *)
(*                                                                         *)
(* The store's module (infrastructure/metadata/github_metadata_store.py)   *)
(* and the prepare command are exercised by the unit and integration tests *)
(* of the repository; the sequence of hosting-API calls each operation     *)
(* makes is the one those tests fix with their mocks.                      *)
(*                                                                         *)
(* Further specifications of the module: SpecAll (get_all_projects against *)
(* concurrent deletions), SpecTask (TaskService: skip-sets, next available *)
(* task, orphaned pull requests) and SpecSync (sync_task_statuses of the   *)
(* project metadata document).                                             *)
(***************************************************************************)
EXTENDS Integers, Sequences, FiniteSets, TLC

\* ------------------------------------------------------------------ bounds
MaxRetries == 1     \* store.max_retries: retries allowed after a conflict
MaxCycles  == 3     \* invocations the workflow runs make in all

Writers  == {"A", "B"}      \* concurrent workflow runs (driver invocations)
Projects == {"p", "q"}      \* project names: one file projects/<name>.json each

NoSha  == 0                 \* "no version token": the file is absent / sha=None
NoFile == [sha |-> NoSha, doc |-> {}]

\* _get_file_path: the file of a project, as path fragments.
FilePathShared(p) == <<"projects", "/", "metadata", ".json">>
FilePath(p) == <<"projects", "/", p, ".json">>
Paths == {FilePath(p) : p \in Projects}

StoreOps == {"update", "get_project", "project_exists", "list_project_names",
             "delete_project", "ensure_branch"}
WritePcs == {"put", "reread"}

VARIABLES
    branch,     \* TRUE when the metadata branch exists on the remote
    commits,    \* number of commits made on the metadata branch
    files,      \* [Paths -> [sha, doc]]: the file at each path, NoFile if absent
    clock,      \* last version token handed out by the remote
    acked,      \* [Projects -> SUBSET Writers]: updates whose write reported success
    inv,        \* [Writers -> record]: the invocation each workflow run is in
    cycles,     \* invocations started so far
    fcall       \* the get_file_from_branch call under study

\* The checklist of a project, its pull requests and the task service.
VARIABLES
    checklist,  \* spec.md of the project: the tasks in order, [description, is_completed]
    before,     \* the checklist as it was before its last revision
    pulls,      \* [PullNumbers -> record]: the project's pull requests on the remote
    tcall       \* the TaskService call under study

\* The metadata document of a project and the derivation of its task statuses.
VARIABLES
    project,    \* HybridProjectMetadata: tasks and pull_requests
    synced      \* what the calls of sync_task_statuses found and left

\* The reviewers of a project, its open pull requests and the capacity check.
VARIABLES
    config,     \* ProjectConfiguration.reviewers, in configuration order
    snapshot,   \* the open pull requests of the project: [reviewer] by creation
    rcall       \* the find_available_reviewer calls under study

\* The calls of the pure functions under study.
VARIABLES
    doc,        \* a to_dict / from_dict round trip of a project's metadata
    hcall       \* a generate_task_hash call

storeVars == <<branch, commits, files, clock, acked, inv, cycles>>
taskVars == <<checklist, before, pulls, tcall>>
syncVars == <<project, synced>>
reviewerVars == <<config, snapshot, rcall>>
pureVars == <<doc, hcall>>

vars == <<branch, commits, files, clock, acked, inv, cycles, fcall,
          checklist, before, pulls, tcall, project, synced, config, snapshot, rcall,
          doc, hcall>>


File(p) == files[FilePath(p)]
Exists(p) == File(p).sha # NoSha

\* The state of an invocation that has not started.
Idle ==
    [pc |-> "idle", op |-> "none", proj |-> "p",
     content |-> {},        \* the document this invocation intends to store
     sha |-> NoSha,         \* the version token it carries
     retries |-> 0,         \* retries made by the current _write_file
     conflicts |-> 0,       \* 409 answers received by the current _write_file
     staleAtPut |-> FALSE,  \* its first PUT was answered 409
     foreign |-> 0,         \* writes by others to its project since it read its token
     v1 |-> NoSha,          \* token produced by the last such write
     reread |-> NoSha,      \* token observed by the last re-read after a conflict
     freshDoc |-> {},       \* document that re-read found in the file
     faulted |-> FALSE,     \* the API answered one of its calls with a transport error
     stored |-> FALSE,      \* one of its PUTs was applied
     touched |-> {},        \* projects whose file one of its calls changed
     sawBranch |-> FALSE,   \* the existence check of ensure_branch found the branch
     made |-> 0,            \* refs and commits created by ensure_branch in this invocation
     readSha |-> NoSha,     \* token obtained by delete_project's read
     delSha |-> NoSha,      \* token sent with the DELETE
     dels |-> 0,            \* DELETE calls issued
     absent |-> FALSE,      \* the read of the operation was answered 404
     names |-> {},          \* what list_project_names returned
     todo |-> {},           \* listed names get_all_projects has still to read
     docs |-> {},           \* projects whose document get_all_projects collected
     skipped |-> {},        \* listed names whose file was gone when it was read
     out |-> "none",        \* what the store operation returned
     err |-> "none",        \* the error the store operation raised
     selected |-> FALSE,    \* the driver went on to select a task
     rc |-> -1]             \* exit code of the driver

\* ------------------------------------------------------- the hosting API
\* The API may answer any call with a transport error.
FaultChoices == {FALSE, TRUE}

\* GET /repos/{repo}/contents/{path}?ref={branch}
GetContent(p, fault) ==
    IF fault THEN "500"
    ELSE IF branch /\ Exists(p) THEN "200" ELSE "404"

\* GET /repos/{repo}/git/ref/heads/{branch}
GetRef(fault) == IF fault THEN "500" ELSE IF branch THEN "200" ELSE "404"

\* PUT /repos/{repo}/contents/{path}: applied when the token sent is the file's
\* current one (none for a file that does not exist), 409 otherwise.
PutContent(p, sha, fault) ==
    IF fault THEN "500"
    ELSE IF File(p).sha = sha THEN "200" ELSE "409"

\* DELETE /repos/{repo}/contents/{path}, conditioned on the token.
DeleteContent(p, sha, fault) ==
    IF fault THEN "500"
    ELSE IF Exists(p) /\ File(p).sha = sha THEN "200" ELSE "409"

\* ----------------------------------------------------------- the store
\* _read_file: the file's content and sha, None on 404, any other error raised.
ReadFileRaises404(resp) ==
    CASE resp = "200" -> "found" [] OTHER -> "raise"
ReadFile(resp) ==
    CASE resp = "200" -> "found" [] resp = "404" -> "none" [] OTHER -> "raise"

\* _list_project_files: [] when the branch does not exist.
ListFiles(resp) ==
    CASE resp = "200" -> "names" [] resp = "404" -> "empty" [] OTHER -> "raise"

\* _ensure_branch_exists: the branch is created only when the check finds none.
EnsureAlwaysCreates(resp) == TRUE
EnsureCreates(resp) == resp = "404"

\* _write_file: what the store makes of the answer to its PUT.
WriteOutcomeStrict(resp) ==
    CASE resp = "409" -> "conflict" [] OTHER -> "error"
WriteOutcome(resp) ==
    CASE resp = "200" -> "ok" [] resp = "409" -> "conflict" [] OTHER -> "error"

\* _write_file: the sha a retry carries is the one the re-read returned.
RetryShaStale(old, fresh) == old
RetrySha(old, fresh) == fresh

\* _write_file: whether a 409 is retried, given the retries already made.
ShouldRetryAlways(retries) == TRUE
ShouldRetry(retries) == retries < MaxRetries

\* _write_file: the document a retry submits. The content handed to _write_file
\* is encoded once; the re-read after a 409 supplies the fresh sha only.
RetryContent(content, fresh) == content

\* get_all_projects: a listed name whose read returns None is left out of the
\* result; the enumeration goes on with the next name.
MissingIsFatal(res) == FALSE
SkipsMissing(res) == res = "none"

\* get_all_projects reads the listed names in the order of the listing.
ProjectOrder == <<"p", "q">>
NextListed(todo) ==
    ProjectOrder[CHOOSE i \in DOMAIN ProjectOrder :
                    /\ ProjectOrder[i] \in todo
                    /\ \A j \in DOMAIN ProjectOrder : ProjectOrder[j] \in todo => i <= j]

\* delete_project: the token sent with the DELETE is the one its read returned.
DeleteTokenCurrent(readSha, p) == File(p).sha
DeleteToken(readSha, p) == readSha

\* cmd_prepare: a failed metadata update is reported as a warning and the
\* preparation goes on.
AbortsOnStoreFailure(err) == err = "none"
ContinuesAfterUpdate(err) == TRUE

\* An invocation's record after its store operation raised / returned.
Raise(r, e) ==
    [r EXCEPT !.err = e, !.out = "raised", !.faulted = (e = "api"),
              !.pc = IF r.op = "update" THEN "select" ELSE "done"]
Return(r, o) ==
    [r EXCEPT !.out = o, !.pc = IF r.op = "update" THEN "select" ELSE "done"]

\* The records of the other invocations after w changed the file of project p:
\* those between reading their token for p and completing their write see a
\* foreign write.
Notify(w, p, token) ==
    [x \in Writers |->
        IF x # w /\ inv[x].proj = p /\ inv[x].pc \in WritePcs
        THEN [inv[x] EXCEPT !.foreign = @ + 1, !.v1 = token]
        ELSE inv[x]]

FirstPc(op) ==
    CASE op \in {"update", "get_project", "project_exists"} -> "get"
      [] op \in {"list_project_names", "get_all_projects"} -> "list"
      [] op = "delete_project" -> "delread"
      [] OTHER -> "ensure"

\* ------------------------------------------- get_file_from_branch (gh CLI)
\* Strings are sequences of fragments; "x in s" is the occurrence of fragment x.
Contains(s, x) == \E i \in DOMAIN s : s[i] = x

Repo == <<"owner/repo">>
Branches == {<<"main">>, <<"develop">>}
FilePathInputs ==
    { <<"claude-step/", "my-project", "/spec.md">>,
      <<"claude-step/", "http-", "404", "-page", "/spec.md">>,
      <<"docs/", "Not Found", "/configuration.yml">>,
      <<"missing/", "file.md">> }

\* What the gh process did: exit status 0 with its stdout, or a failure with
\* the HTTP status the API answered.
GhOutcomes ==
    [ok : {TRUE}, status : {200},
     body : {"content", "content_with_newlines", "no_content_field", "empty", "not_json"}]
    \cup [ok : {FALSE}, status : {404, 403, 500}, body : {"none"}]

\* stderr of a failed `gh api` call.
GhStderr(status) ==
    CASE status = 404 -> <<"gh: ", "Not Found", " (HTTP ", "404", ")">>
      [] status = 403 -> <<"gh: ", "API rate limit exceeded", " (HTTP ", "403", ")">>
      [] OTHER        -> <<"gh: ", "Internal Server Error", " (HTTP ", "500", ")">>

\* The endpoint get_file_from_branch builds.
Endpoint(file_path, br) ==
    <<"/repos/">> \o Repo \o <<"/contents/">> \o file_path \o <<"?ref=">> \o br

\* run_gh_command: the message of the GitHubAPIError raised when gh fails.
RunGhError(args, stderr) ==
    <<"GitHub CLI command failed: ">> \o args \o <<"\n">> \o stderr

\* gh_api_call: the parsed response, or the error raised.
GhApiCall(endpoint, method, proc) ==
    IF ~proc.ok
    THEN [raised |-> TRUE, body |-> "none",
          msg |-> RunGhError(<<"api", " ">> \o endpoint \o <<" ", "--method", " ", method>>,
                             GhStderr(proc.status))]
    ELSE IF proc.body = "not_json"
    THEN [raised |-> TRUE, body |-> "none", msg |-> <<"Invalid JSON from API: ", "Expecting value">>]
    ELSE [raised |-> FALSE, body |-> proc.body, msg |-> <<>>]

\* The base64 text of the response and what it decodes to; GitHub breaks the
\* encoded text into lines.
Encoded(body) ==
    IF body = "content_with_newlines" THEN <<"TGluZSAx", "\n", "CkxpbmUgMg==", "\n">>
    ELSE <<"TGluZSAx", "CkxpbmUgMg==">>
B64Decode(chunk) == IF chunk = "TGluZSAx" THEN "Line 1" ELSE "\nLine 2"
Decoded(text) ==
    LET joined == SelectSeq(text, LAMBDA c : c # "\n")
    IN [i \in DOMAIN joined |-> B64Decode(joined[i])]

\* get_file_from_branch: the content, None, or the error re-raised.
IsNotFound(msg) == Contains(msg, "404") \/ Contains(msg, "Not Found")

GetFileFromBranch(file_path, br, proc) ==
    LET response == GhApiCall(Endpoint(file_path, br), "GET", proc)
    IN IF response.raised
       THEN IF IsNotFound(response.msg)
            THEN [kind |-> "None", value |-> <<>>]
            ELSE [kind |-> "raised", value |-> response.msg]
       ELSE IF response.body \in {"content", "content_with_newlines"}
            THEN [kind |-> "content", value |-> Decoded(Encoded(response.body))]
            ELSE [kind |-> "None", value |-> <<>>]

\* ------------------------------------------------------------ TaskService
MaxTasks == 3       \* longest checklist

\* The task descriptions of a checklist, by position, and their content hashes
\* (generate_task_hash: 8 hexadecimal characters of the SHA-256).
\* Text is a sequence of fragments: words and whitespace characters.
Whitespace == {" ", "\t"}
Word(w, n) == <<w, " ", n>>
TaskDescriptions ==
    <<Word("Task", "1"), Word("Task", "2"), Word("Task", "3"), Word("Task", "4"),
      Word("Task", "5")>>

\* " ".join(description.split()): leading and trailing whitespace is dropped
\* and every run of whitespace inside becomes one space.
RECURSIVE JoinSplit(_, _, _, _)
JoinSplit(description, i, out, gap) ==
    IF i > Len(description) THEN out
    ELSE IF description[i] \in Whitespace
         THEN JoinSplit(description, i + 1, out, out # <<>>)
         ELSE JoinSplit(description, i + 1,
                        (IF gap THEN Append(out, " ") ELSE out) \o <<description[i]>>,
                        FALSE)
KeepsWhitespace(description) == description
NormalizeDescription(description) == JoinSplit(description, 1, <<>>, FALSE)

\* The digest of a text, as hexadecimal digits. SHA-256 is stood for by a
\* polynomial digest of the fragments' codes, of the same width.
HexDigits == <<"0", "1", "2", "3", "4", "5", "6", "7", "8", "9",
               "a", "b", "c", "d", "e", "f">>
Code(fragment) ==
    CASE fragment = " " -> 32 [] fragment = "\t" -> 9
      [] fragment = "1" -> 49 [] fragment = "2" -> 50 [] fragment = "3" -> 51
      [] fragment = "4" -> 52 [] fragment = "5" -> 53
      [] fragment = "Task" -> 8497 [] fragment = "Add" -> 6510
      [] fragment = "tests" -> 11610
      [] OTHER -> 63
RECURSIVE Fold(_, _, _, _)
Fold(text, i, h, mult) ==
    IF i > Len(text) THEN h
    ELSE Fold(text, i + 1, (h * mult + Code(text[i])) % 65536, mult)
Hex4(n) ==
    <<HexDigits[((n \div 4096) % 16) + 1], HexDigits[((n \div 256) % 16) + 1],
      HexDigits[((n \div 16) % 16) + 1], HexDigits[(n % 16) + 1]>>
HexDigest(text) ==
    Hex4(Fold(text, 1, 58288, 31)) \o Hex4(Fold(text, 1, 50242, 131)) \o
    Hex4(Fold(text, 1, 39180, 257)) \o Hex4(Fold(text, 1, 47096, 17))

\* generate_task_hash: the first 8 hexadecimal characters of the digest of the
\* normalized description.
HashLength == 8
GenerateTaskHash(description) ==
    SubSeq(HexDigest(NormalizeDescription(description)), 1, HashLength)

\* A pull request carries the identifiers its branch name encodes: a task hash,
\* a task index, or none.
NoHash == <<>>
NoIndex == 0
PullNumbers == {41, 42}
PullStates == {"open", "closed", "merged"}
PullHashes == {NoHash, GenerateTaskHash(TaskDescriptions[2]),
               <<"0", "d", "d", "b", "a", "1", "1", "f">>}
PullIndices == {NoIndex, 1, 2, 9}
NoPull == [number |-> 0, state |-> "none", task_hash |-> NoHash, task_index |-> NoIndex]

\* spec.tasks: the tasks of the checklist with their 1-based index and hash.
TasksHashedByPosition(cl) ==
    [i \in DOMAIN cl |->
        [index |-> i, description |-> cl[i].description,
         is_completed |-> cl[i].is_completed,
         task_hash |-> GenerateTaskHash(TaskDescriptions[i])]]
Tasks(cl) ==
    [i \in DOMAIN cl |->
        [index |-> i, description |-> cl[i].description,
         is_completed |-> cl[i].is_completed,
         task_hash |-> GenerateTaskHash(cl[i].description)]]

\* pr_service.get_open_prs_for_project: the open pull requests of the project,
\* or a failure of the query.
AllPrsForProject(prs) == {prs[n] : n \in {m \in DOMAIN prs : prs[m] # NoPull}}
OpenPrsForProject(prs) ==
    {prs[n] : n \in {m \in DOMAIN prs : prs[m].state = "open"}}
QueryFindsNothing(prs, fault) == [ok |-> ~fault, prs |-> {}]
QueryOpenPrs(prs, fault) ==
    IF fault THEN [ok |-> FALSE, prs |-> {}]
    ELSE [ok |-> TRUE, prs |-> OpenPrsForProject(prs)]

\* SpecContent.get_next_available_task: the first task, in checklist order,
\* that is not completed and is in neither skip-set.
IgnoresSkipHashes(tasks, skip_indices, skip_hashes) ==
    {i \in DOMAIN tasks : ~tasks[i].is_completed /\ tasks[i].index \notin skip_indices}
Available(tasks, skip_indices, skip_hashes) ==
    {i \in DOMAIN tasks :
        /\ ~tasks[i].is_completed
        /\ tasks[i].index \notin skip_indices
        /\ tasks[i].task_hash \notin skip_hashes}

First(S) == CHOOSE i \in S : \A j \in S : i <= j

\* TaskService.find_next_available_task: (index, description, hash) or None.
NoTask == <<NoIndex, <<>>, NoHash>>
FindNextAvailableTask(cl, skip_indices, skip_hashes) ==
    LET tasks == Tasks(cl)
        avail == Available(tasks, skip_indices, skip_hashes)
    IN IF avail = {} THEN NoTask
       ELSE LET task == tasks[First(avail)]
            IN <<task.index, task.description, task.task_hash>>

\* task_management.find_next_available_task: the plan file is scanned line by
\* line, the index counting checked and unchecked items alike.
RECURSIVE ScanPlan(_, _, _)
ScanPlan(cl, task_index, skip_indices) ==
    IF task_index > Len(cl) THEN <<NoIndex, <<>>>>
    ELSE IF ~cl[task_index].is_completed /\ task_index \notin skip_indices
         THEN <<task_index, cl[task_index].description>>
         ELSE ScanPlan(cl, task_index + 1, skip_indices)
FindNextAvailableTaskInPlan(cl, skip_indices) == ScanPlan(cl, 1, skip_indices)

\* TaskService.get_in_progress_tasks: the two skip-sets; a failure of the query
\* is reported and both come back empty.
SkipSetsRaise(resp) ==
    IF ~resp.ok THEN [raised |-> TRUE, indices |-> {}, hashes |-> {}]
    ELSE [raised |-> FALSE, indices |-> {}, hashes |-> {}]
SkipSetsFromBoth(resp) ==
    IF ~resp.ok THEN [raised |-> FALSE, indices |-> {}, hashes |-> {}]
    ELSE [raised |-> FALSE,
          indices |-> {pr.task_index : pr \in {x \in resp.prs : x.task_index # NoIndex}},
          hashes |-> {pr.task_hash : pr \in {x \in resp.prs : x.task_hash # NoHash}}]
GetInProgressTasks(resp) ==
    IF ~resp.ok THEN [raised |-> FALSE, indices |-> {}, hashes |-> {}]
    ELSE [raised |-> FALSE,
          indices |-> {pr.task_index : pr \in
                         {x \in resp.prs : x.task_hash = NoHash /\ x.task_index # NoIndex}},
          hashes |-> {pr.task_hash : pr \in {x \in resp.prs : x.task_hash # NoHash}}]

\* TaskService.detect_orphaned_prs: a pull request that carries a hash is judged
\* by its hash, one that carries only an index by its index.
AnyHashValid(tasks) == {GenerateTaskHash(TaskDescriptions[i]) : i \in DOMAIN TaskDescriptions}
valid_hashes(tasks) == {tasks[i].task_hash : i \in DOMAIN tasks}
AnyIndexValid(tasks) == PullIndices
valid_indices(tasks) == {tasks[i].index : i \in DOMAIN tasks}
IsOrphanIndexFirst(pr, tasks) ==
    IF pr.task_index # NoIndex THEN pr.task_index \notin valid_indices(tasks)
    ELSE IF pr.task_hash # NoHash THEN pr.task_hash \notin valid_hashes(tasks)
         ELSE FALSE
IsOrphan(pr, tasks) ==
    IF pr.task_hash # NoHash THEN pr.task_hash \notin valid_hashes(tasks)
    ELSE IF pr.task_index # NoIndex THEN pr.task_index \notin valid_indices(tasks)
         ELSE FALSE
DetectOrphanedPrs(resp, cl) ==
    IF ~resp.ok THEN {}
    ELSE {pr.number : pr \in {x \in resp.prs : IsOrphan(x, Tasks(cl))}}

\* detect_orphaned_prs makes no call that changes a pull request.
ClosesOrphans(prs, orphaned) ==
    [n \in DOMAIN prs |-> IF n \in orphaned THEN [prs[n] EXCEPT !.state = "closed"] ELSE prs[n]]
PullsAfterDetection(prs, orphaned) == prs

NoTaskCall ==
    [pc |-> "idle", op |-> "none", failed |-> FALSE,
     skip_indices |-> {}, skip_hashes |-> {}, raised |-> FALSE,
     seen |-> {}, next |-> NoTask, legacy |-> <<NoIndex, <<>>>>, orphaned |-> {}]

\* The task service is not in use.
NoTaskService ==
    /\ checklist = <<>>
    /\ before = <<>>
    /\ pulls = [n \in PullNumbers |-> NoPull]
    /\ tcall = NoTaskCall

\* ------------------------------------------------ HybridProjectMetadata
TaskStatuses == {"pending", "in_progress", "completed"}
Times == {1, 2}             \* created_at of the pull requests, distinct

\* The task status a pull request state maps to.
ClosedIsPending(pr_state) ==
    CASE pr_state = "open" -> "in_progress"
      [] pr_state = "merged" -> "completed"
      [] OTHER -> "pending"
StatusOf(pr_state) ==
    CASE pr_state = "open" -> "in_progress"
      [] pr_state = "merged" -> "completed"
      [] OTHER -> "in_progress"

\* get_prs_for_task: the positions, in pull_requests, of the records of a task.
PrsForTask(prs, index) == {k \in DOMAIN prs : prs[k].task_index = index}

\* The latest pull request of a task: the one created last.
LatestByNumber(prs, ks) ==
    CHOOSE k \in ks : \A j \in ks : prs[j].pr_number <= prs[k].pr_number
LatestPr(prs, ks) ==
    CHOOSE k \in ks : \A j \in ks : prs[j].created_at <= prs[k].created_at

\* The status a task without pull request gets.
KeepsStatus(task) == task.status
StatusWithoutPr(task) == "pending"

\* sync_task_statuses: every task's status is set from its latest pull request.
SyncTaskStatuses(tasks, prs) ==
    [i \in DOMAIN tasks |->
        LET ks == PrsForTask(prs, tasks[i].index)
        IN [tasks[i] EXCEPT !.status =
               IF ks = {} THEN StatusWithoutPr(tasks[i])
               ELSE StatusOf(prs[LatestPr(prs, ks)].pr_state)]]

NoProject == [tasks |-> <<>>, pull_requests |-> <<>>]
\* fresh: no pull request changed since the last sync; twice: that sync found
\* the statuses a sync had left; stored / before: the statuses found by the first
\* and by the last of the syncs made since a pull request changed.
NoSync == [fresh |-> FALSE, twice |-> FALSE, stored |-> <<>>, before |-> <<>>]
NoMetadata ==
    /\ project = NoProject
    /\ synced = NoSync

\* ---------------------------------------------- find_available_reviewer
MaxOpenPrs == 2     \* largest max_open_prs a reviewer is configured with
MaxSnapshot == 2    \* open pull requests of the project at the time of the check

\* The configured reviewers are known by their username; a pull request may be
\* assigned to somebody the configuration does not list, or carry no reviewer
\* (an artifact without metadata).
Usernames == {"alice", "bob"}
NoReviewer == "None"
Assignees == Usernames \cup {"carol", NoReviewer}
NoSelection == "None"

Orders(n) == {f \in [1..n -> 1..n] : \A i, j \in 1..n : f[i] = f[j] => i = j}

\* The open pull requests as one query lists them.
Listing(prs, order) ==
    [k \in DOMAIN prs |-> [pr_number |-> order[k], reviewer |-> prs[order[k]].reviewer]]

\* has_capacity = len(open_prs) < max_prs
HasCapacityInclusive(open_prs, max_prs) == Len(open_prs) <= max_prs
HasCapacity(open_prs, max_prs) == Len(open_prs) < max_prs

\* result.all_at_capacity = (selected_reviewer is None)
FlagNeverSet(selected_reviewer) == FALSE
AllAtCapacity(selected_reviewer) == selected_reviewer = NoSelection

\* The final loop goes over config.reviewers, in the order of the configuration.
ListingOrder(reviewers, listing) ==
    IF Len(reviewers) = 2 /\ listing # <<>> /\ listing[1].reviewer = reviewers[2].username
    THEN <<reviewers[2], reviewers[1]>>
    ELSE reviewers
IterationOrder(reviewers, listing) == reviewers

\* The loop has no break: every reviewer gets its entry in the report.
StopsAtSelection(selected_reviewer) == selected_reviewer = NoSelection
GoesOn(selected_reviewer) == TRUE

\* pr_service.get_reviewer_prs_for_project: the listed pull requests of a reviewer.
GetReviewerPrsForProject(listing, username) ==
    SelectSeq(listing, LAMBDA pr : pr.reviewer = username)

\* ReviewerService: reviewer_prs, one query per configured reviewer.
ReviewerPrs(reviewers, listing) ==
    [u \in {reviewers[i].username : i \in DOMAIN reviewers} |->
        GetReviewerPrsForProject(listing, u)]

\* ReviewerManagementService: reviewer_prs, the artifacts grouped by the
\* reviewer their metadata names; unknown reviewers are left out.
RECURSIVE GroupArtifacts(_, _, _)
GroupArtifacts(artifacts, k, reviewer_prs) ==
    IF k > Len(artifacts) THEN reviewer_prs
    ELSE LET assigned_reviewer == artifacts[k].reviewer
         IN IF assigned_reviewer # NoReviewer /\ assigned_reviewer \in DOMAIN reviewer_prs
            THEN GroupArtifacts(artifacts, k + 1,
                     [reviewer_prs EXCEPT ![assigned_reviewer] = Append(@, artifacts[k])])
            ELSE GroupArtifacts(artifacts, k + 1, reviewer_prs)
ArtifactPrs(reviewers, artifacts) ==
    GroupArtifacts(artifacts, 1,
        [u \in {reviewers[i].username : i \in DOMAIN reviewers} |-> <<>>])

\* ReviewerCapacityResult()
NoResult == [reviewers_status |-> <<>>, selected_reviewer |-> NoSelection,
             all_at_capacity |-> FALSE]

\* Build result and find first available reviewer.
RECURSIVE CapacityLoop(_, _, _, _)
CapacityLoop(order, i, reviewer_prs, result) ==
    IF i > Len(order) \/ ~GoesOn(result.selected_reviewer)
    THEN [result EXCEPT !.all_at_capacity = AllAtCapacity(result.selected_reviewer)]
    ELSE LET username == order[i].username
             max_prs == order[i].max_open_prs
             open_prs == reviewer_prs[username]
             has_capacity == HasCapacity(open_prs, max_prs)
             entry == [username |-> username, max_prs |-> max_prs,
                       open_count |-> Len(open_prs), has_capacity |-> has_capacity]
         IN CapacityLoop(order, i + 1, reviewer_prs,
                [result EXCEPT
                    !.reviewers_status = Append(@, entry),
                    !.selected_reviewer =
                        IF has_capacity /\ @ = NoSelection THEN username ELSE @])

\* find_available_reviewer of the two services.
FindAvailableReviewer(service, reviewers, listing) ==
    CapacityLoop(IterationOrder(reviewers, listing), 1,
                 IF service = "ReviewerService" THEN ReviewerPrs(reviewers, listing)
                 ELSE ArtifactPrs(reviewers, listing),
                 NoResult)

Services == {"ReviewerService", "ReviewerManagementService"}
NoReviewerCall ==
    [pc |-> "idle", service |-> "none", listing |-> <<>>, raised |-> FALSE,
     result |-> NoResult, runs |-> <<>>]

\* The capacity check is not in use.
NoReviewerCheck ==
    /\ config = <<>>
    /\ snapshot = <<>>
    /\ rcall = NoReviewerCall

\* --------------------------------------- to_dict / from_dict of the models
\* A datetime is an instant with or without a time zone; isoformat() writes the
\* offset of an aware one, and from_dict reads "Z" as "+00:00".
UtcOffsets == {"+00:00", "Z"}
IsoFormat(dt) == [text |-> dt.at, offset |-> IF dt.tz = "utc" THEN "+00:00" ELSE ""]
FromIsoFormat(iso) ==
    [at |-> iso.text, tz |-> IF iso.offset \in UtcOffsets THEN "utc" ELSE "naive"]

\* TaskStatus: the members of the enumeration and their values.
TaskStatus(value) == [enum |-> "TaskStatus", value |-> value]
DictGet(data, key, default) == IF key \in DOMAIN data THEN data[key] ELSE default

\* Task.to_dict / Task.from_dict: the status defaults to pending.
TaskToDict(task) ==
    [index |-> task.index, description |-> task.description, status |-> task.status.value]
StatusAlwaysPending(data) == TaskStatus("pending")
StatusFromDict(data) == TaskStatus(DictGet(data, "status", "pending"))
TaskFromDict(data) ==
    [index |-> data.index, description |-> data.description, status |-> StatusFromDict(data)]

\* AIOperation.to_dict / from_dict: the token counts and the duration default to 0.
AIOperationToDict(op) ==
    [type |-> op.type, model |-> op.model, cost_usd |-> op.cost_usd,
     created_at |-> IsoFormat(op.created_at), workflow_run_id |-> op.workflow_run_id,
     tokens_input |-> op.tokens_input, tokens_output |-> op.tokens_output,
     duration_seconds |-> op.duration_seconds]
AIOperationFromDict(data) ==
    [type |-> data.type, model |-> data.model, cost_usd |-> data.cost_usd,
     created_at |-> FromIsoFormat(data.created_at), workflow_run_id |-> data.workflow_run_id,
     tokens_input |-> DictGet(data, "tokens_input", 0),
     tokens_output |-> DictGet(data, "tokens_output", 0),
     duration_seconds |-> DictGet(data, "duration_seconds", 0)]

\* PullRequest.to_dict / from_dict.
NoTitle == <<>>
PullRequestToDict(pr) ==
    [task_index |-> pr.task_index, pr_number |-> pr.pr_number,
     branch_name |-> pr.branch_name, reviewer |-> pr.reviewer, pr_state |-> pr.pr_state,
     created_at |-> IsoFormat(pr.created_at), title |-> pr.title,
     ai_operations |-> [k \in DOMAIN pr.ai_operations |->
                          AIOperationToDict(pr.ai_operations[k])]]
PullRequestFromDict(data) ==
    [task_index |-> data.task_index, pr_number |-> data.pr_number,
     branch_name |-> data.branch_name, reviewer |-> data.reviewer, pr_state |-> data.pr_state,
     created_at |-> FromIsoFormat(data.created_at), title |-> DictGet(data, "title", NoTitle),
     ai_operations |-> [k \in DOMAIN DictGet(data, "ai_operations", <<>>) |->
                          AIOperationFromDict(data.ai_operations[k])]]

\* HybridProjectMetadata.to_dict / from_dict.
ToDict(m) ==
    [schema_version |-> m.schema_version, project |-> m.project,
     last_updated |-> IsoFormat(m.last_updated),
     tasks |-> [i \in DOMAIN m.tasks |-> TaskToDict(m.tasks[i])],
     pull_requests |-> [k \in DOMAIN m.pull_requests |->
                          PullRequestToDict(m.pull_requests[k])]]
FromDict(data) ==
    [schema_version |-> data.schema_version, project |-> data.project,
     last_updated |-> FromIsoFormat(data.last_updated),
     tasks |-> [i \in DOMAIN data.tasks |-> TaskFromDict(data.tasks[i])],
     pull_requests |-> [k \in DOMAIN data.pull_requests |->
                          PullRequestFromDict(data.pull_requests[k])]]

NoDocument == [pc |-> "none", m |-> <<>>, dict |-> <<>>, back |-> <<>>]
NoHashCall ==
    [pc |-> "none", description |-> <<>>, hash |-> <<>>, normalized |-> <<>>,
     hash_normalized |-> <<>>, again |-> <<>>]

\* No pure function is being called.
NoPureCall ==
    /\ doc = NoDocument
    /\ hcall = NoHashCall

NoCall ==
    [pc |-> "none", file_path |-> <<>>, branch |-> <<>>,
     proc |-> [ok |-> TRUE, status |-> 200, body |-> "empty"],
     calls |-> 0, result |-> [kind |-> "none", value |-> <<>>]]

Init ==
    /\ branch = FALSE
    /\ commits = 0
    /\ files = [f \in Paths |-> NoFile]
    /\ clock = 0
    /\ acked = [p \in Projects |-> {}]
    /\ inv = [w \in Writers |-> Idle]
    /\ cycles = 0
    /\ fcall = NoCall
    /\ NoTaskService
    /\ NoMetadata
    /\ NoReviewerCheck
    /\ NoPureCall

\* A workflow run starts an invocation: one store operation on one project.
Begin(w, ops) ==
    /\ inv[w].pc = "idle"
    /\ cycles < MaxCycles
    /\ \E op \in ops, p \in Projects :
          inv' = [inv EXCEPT ![w] = [Idle EXCEPT !.pc = FirstPc(op), !.op = op, !.proj = p]]
    /\ cycles' = cycles + 1
    /\ UNCHANGED <<branch, commits, files, clock, acked, fcall, taskVars, syncVars, reviewerVars, pureVars>>

Start(w) == Begin(w, StoreOps)

\* get_project / project_exists, and the read that starts update_pr_state:
\* one _read_file. An update adds this run's change to the document it read.
Get(w) ==
    /\ inv[w].pc = "get"
    /\ \E f \in FaultChoices :
        LET r == inv[w]
            res == ReadFile(GetContent(r.proj, f))
        IN /\ inv' = [inv EXCEPT ![w] =
                CASE res = "raise" -> Raise(r, IF f THEN "api" ELSE "not_found")
                  [] r.op = "update" ->
                        [r EXCEPT !.content = (IF res = "found" THEN File(r.proj).doc ELSE {}) \cup {w},
                                  !.pc = "ensure"]
                  [] r.op = "get_project" ->
                        Return([r EXCEPT !.absent = (res = "none")],
                               IF res = "found" THEN "document" ELSE "None")
                  [] OTHER ->
                        Return([r EXCEPT !.absent = (res = "none")],
                               IF res = "found" THEN "True" ELSE "False")]
    /\ UNCHANGED <<branch, commits, files, clock, acked, cycles, fcall, taskVars, syncVars, reviewerVars, pureVars>>

\* list_project_names: the branch's tree, filtered to projects/*.json.
List(w) ==
    /\ inv[w].pc = "list"
    /\ \E f \in FaultChoices :
        LET r == inv[w]
            res == ListFiles(GetRef(f))
        IN /\ inv' = [inv EXCEPT ![w] =
                CASE res = "raise" -> Raise(r, IF f THEN "api" ELSE "not_found")
                  [] res = "empty" ->
                        Return([r EXCEPT !.absent = TRUE, !.names = {}],
                               IF r.op = "get_all_projects" THEN "documents" ELSE "names")
                  [] r.op = "get_all_projects" ->
                        LET listed == {p \in Projects : Exists(p)}
                        IN IF listed = {}
                           THEN Return([r EXCEPT !.names = {}], "documents")
                           ELSE [r EXCEPT !.names = listed, !.todo = listed, !.pc = "readall"]
                  [] OTHER -> Return([r EXCEPT !.names = {p \in Projects : Exists(p)}], "names")]
    /\ UNCHANGED <<branch, commits, files, clock, acked, cycles, fcall, taskVars, syncVars, reviewerVars, pureVars>>

\* _ensure_branch_exists, the existence check.
Ensure(w) ==
    /\ inv[w].pc = "ensure"
    /\ \E f \in FaultChoices :
        LET r == inv[w]
            resp == GetRef(f)
        IN /\ inv' = [inv EXCEPT ![w] =
                IF resp = "500" THEN Raise(r, "api")
                ELSE IF EnsureCreates(resp)
                     THEN [r EXCEPT !.sawBranch = (resp = "200"), !.pc = "mkref"]
                     ELSE IF r.op = "update"
                          THEN [r EXCEPT !.sawBranch = (resp = "200"), !.pc = "readsha"]
                          ELSE Return([r EXCEPT !.sawBranch = (resp = "200")], "None")]
    /\ UNCHANGED <<branch, commits, files, clock, acked, cycles, fcall, taskVars, syncVars, reviewerVars, pureVars>>

\* _ensure_branch_exists, creation: the default branch's commit is read and the
\* new ref is created on it. Creating a ref that exists is an API error.
MkRef(w) ==
    /\ inv[w].pc = "mkref"
    /\ \E f \in FaultChoices :
        LET r == inv[w]
        IN /\ IF f \/ branch
              THEN /\ inv' = [inv EXCEPT ![w] = Raise(r, IF f THEN "api" ELSE "exists")]
                   /\ UNCHANGED branch
              ELSE /\ inv' = [inv EXCEPT ![w] = [r EXCEPT !.made = @ + 1, !.pc = "readme"]]
                   /\ branch' = TRUE
    /\ UNCHANGED <<commits, files, clock, acked, cycles, fcall, taskVars, syncVars, reviewerVars, pureVars>>

\* _ensure_branch_exists, creation: the placeholder README is committed.
Readme(w) ==
    /\ inv[w].pc = "readme"
    /\ \E f \in FaultChoices :
        LET r == inv[w]
        IN /\ IF f
              THEN /\ inv' = [inv EXCEPT ![w] = Raise(r, "api")]
                   /\ UNCHANGED commits
              ELSE /\ inv' = [inv EXCEPT ![w] =
                        IF r.op = "update"
                        THEN [r EXCEPT !.made = @ + 1, !.pc = "readsha"]
                        ELSE Return([r EXCEPT !.made = @ + 1], "None")]
                   /\ commits' = commits + 1
    /\ UNCHANGED <<branch, files, clock, acked, cycles, fcall, taskVars, syncVars, reviewerVars, pureVars>>

\* save_project: the file's current sha is read (none on 404) for the write.
ReadSha(w) ==
    /\ inv[w].pc = "readsha"
    /\ \E f \in FaultChoices :
        LET r == inv[w]
            res == ReadFile(GetContent(r.proj, f))
        IN /\ inv' = [inv EXCEPT ![w] =
                IF res = "raise" THEN Raise(r, IF f THEN "api" ELSE "not_found")
                ELSE [r EXCEPT !.sha = File(r.proj).sha, !.pc = "put"]]
    /\ UNCHANGED <<branch, commits, files, clock, acked, cycles, fcall, taskVars, syncVars, reviewerVars, pureVars>>

\* _write_file, one attempt: a PUT of the encoded content with the sha carried.
\* Applied, it replaces the file in one remote operation; answered 409, it is
\* retried after a re-read while ShouldRetry allows, else the conflict is raised;
\* any other error is raised at once.
Put(w) ==
    /\ inv[w].pc = "put"
    /\ \E f \in FaultChoices :
        LET r == inv[w]
            resp == PutContent(r.proj, r.sha, f)
            applied == resp = "200"
            token == clock + 1
            nf == IF applied
                  THEN [files EXCEPT ![FilePath(r.proj)] = [sha |-> token, doc |-> r.content]]
                  ELSE files
            changed == {q \in Projects : nf[FilePath(q)] # File(q)}
            seen == [r EXCEPT !.staleAtPut = IF r.retries = 0 /\ r.conflicts = 0
                                             THEN resp = "409" ELSE @,
                              !.stored = @ \/ applied,
                              !.touched = @ \cup changed]
            others == IF applied THEN Notify(w, r.proj, token) ELSE inv
            outcome == WriteOutcome(resp)
        IN /\ files' = nf
           /\ clock' = IF applied THEN token ELSE clock
           /\ commits' = IF applied THEN commits + 1 ELSE commits
           /\ acked' = IF applied /\ outcome = "ok"
                       THEN [acked EXCEPT ![r.proj] = @ \cup {w}] ELSE acked
           /\ inv' = [others EXCEPT ![w] =
                CASE outcome = "ok" -> Return(seen, "ok")
                  [] outcome = "conflict" ->
                        IF ShouldRetry(r.retries)
                        THEN [seen EXCEPT !.conflicts = @ + 1, !.retries = @ + 1,
                                          !.pc = "reread"]
                        ELSE Raise([seen EXCEPT !.conflicts = @ + 1], "conflict")
                  [] OTHER -> Raise(seen, IF f THEN "api" ELSE "error")]
    /\ UNCHANGED <<branch, cycles, fcall, taskVars, syncVars, reviewerVars, pureVars>>

\* _write_file after a 409: the file is read again for its current sha.
Reread(w) ==
    /\ inv[w].pc = "reread"
    /\ \E f \in FaultChoices :
        LET r == inv[w]
            res == ReadFile(GetContent(r.proj, f))
        IN /\ inv' = [inv EXCEPT ![w] =
                IF res = "raise" THEN Raise(r, IF f THEN "api" ELSE "not_found")
                ELSE [r EXCEPT !.sha = RetrySha(r.sha, File(r.proj).sha),
                               !.reread = File(r.proj).sha,
                               !.freshDoc = File(r.proj).doc,
                               !.content = RetryContent(r.content, File(r.proj).doc),
                               !.pc = "put"]]
    /\ UNCHANGED <<branch, commits, files, clock, acked, cycles, fcall, taskVars, syncVars, reviewerVars, pureVars>>

\* delete_project, the read: a 404 means there is nothing to delete.
DelRead(w) ==
    /\ inv[w].pc = "delread"
    /\ \E f \in FaultChoices :
        LET r == inv[w]
            res == ReadFile(GetContent(r.proj, f))
        IN /\ inv' = [inv EXCEPT ![w] =
                CASE res = "raise" -> Raise(r, IF f THEN "api" ELSE "not_found")
                  [] res = "none" -> Return([r EXCEPT !.absent = TRUE], "None")
                  [] OTHER -> [r EXCEPT !.readSha = File(r.proj).sha, !.pc = "delete"]]
    /\ UNCHANGED <<branch, commits, files, clock, acked, cycles, fcall, taskVars, syncVars, reviewerVars, pureVars>>

\* delete_project, the DELETE conditioned on the token.
Delete(w) ==
    /\ inv[w].pc = "delete"
    /\ \E f \in FaultChoices :
        LET r == inv[w]
            token == DeleteToken(r.readSha, r.proj)
            resp == DeleteContent(r.proj, token, f)
            nf == IF resp = "200" THEN [files EXCEPT ![FilePath(r.proj)] = NoFile] ELSE files
            changed == {q \in Projects : nf[FilePath(q)] # File(q)}
            sent == [r EXCEPT !.dels = @ + 1, !.delSha = token, !.touched = @ \cup changed]
        IN /\ IF resp = "200"
              THEN /\ files' = nf
                   /\ commits' = commits + 1
                   /\ acked' = [acked EXCEPT ![r.proj] = {}]
                   /\ inv' = [Notify(w, r.proj, NoSha) EXCEPT ![w] =
                                 Return(sent, "None")]
              ELSE /\ inv' = [inv EXCEPT ![w] =
                                 Raise(sent, IF resp = "409" THEN "conflict" ELSE "api")]
                   /\ UNCHANGED <<files, commits, acked>>
    /\ UNCHANGED <<branch, clock, cycles, fcall, taskVars, syncVars, reviewerVars, pureVars>>

\* cmd_prepare after the metadata update of the merged pull request: the
\* preparation selects the next task and exits 0, or stops with exit code 1.
Select(w) ==
    /\ inv[w].pc = "select"
    /\ inv' = [inv EXCEPT ![w] =
            IF ContinuesAfterUpdate(inv[w].err)
            THEN [inv[w] EXCEPT !.selected = TRUE, !.rc = 0, !.pc = "done"]
            ELSE [inv[w] EXCEPT !.rc = 1, !.pc = "done"]]
    /\ UNCHANGED <<branch, commits, files, clock, acked, cycles, fcall, taskVars, syncVars, reviewerVars, pureVars>>

\* The invocation ends; the workflow run may start another.
Finish(w) ==
    /\ inv[w].pc = "done"
    /\ inv' = [inv EXCEPT ![w] = Idle]
    /\ UNCHANGED <<branch, commits, files, clock, acked, cycles, fcall, taskVars, syncVars, reviewerVars, pureVars>>

Next ==
    \E w \in Writers :
        \/ Start(w)
        \/ Get(w)
        \/ List(w)
        \/ Ensure(w)
        \/ MkRef(w)
        \/ Readme(w)
        \/ ReadSha(w)
        \/ Put(w)
        \/ Reread(w)
        \/ DelRead(w)
        \/ Delete(w)
        \/ Select(w)
        \/ Finish(w)

Spec == Init /\ [][Next]_vars

\* ------------------------------------------------------------ properties
Ended(w) == inv[w].pc \in {"select", "done"}

\* C1: a write that lost a race and was retried stores a document computed from
\* the document its re-read found, so the winner's update is still in the file:
\* no writer's update is overwritten by a retried write.
C1_RetryStoresFromFresh ==
    \A w \in Writers :
        (Ended(w) /\ inv[w].stored /\ inv[w].conflicts > 0)
            => inv[w].freshDoc \subseteq inv[w].content

\* C2: a writer whose token was replaced by exactly one other write before its
\* first PUT, and whose calls meet no transport error, gets exactly one 409,
\* re-reads the token that write produced, and succeeds on the retry.
C2_ConflictOnceThenSuccess ==
    \A w \in Writers :
        (Ended(w) /\ inv[w].op = "update" /\ inv[w].staleAtPut
            /\ inv[w].foreign = 1 /\ ~inv[w].faulted)
            => /\ inv[w].conflicts = 1
               /\ inv[w].reread = inv[w].v1
               /\ inv[w].sha = inv[w].v1
               /\ inv[w].stored
               /\ inv[w].out = "ok"

C2_Witness ==
    \E w \in Writers :
        /\ Ended(w) /\ inv[w].op = "update" /\ inv[w].staleAtPut
        /\ inv[w].foreign = 1 /\ ~inv[w].faulted
        /\ inv[w].conflicts = 1 /\ inv[w].v1 # NoSha /\ inv[w].out = "ok"

\* C3: a write never makes more than max_retries retries, and a write whose
\* every attempt was answered 409 has ended with the conflict raised and
\* nothing stored.
C3_BoundedRetries ==
    \A w \in Writers :
        /\ inv[w].retries <= MaxRetries
        /\ inv[w].conflicts <= MaxRetries + 1
        /\ inv[w].conflicts = MaxRetries + 1
            => /\ Ended(w)
               /\ inv[w].err = "conflict"
               /\ inv[w].out = "raised"
               /\ ~inv[w].stored

C3_Witness ==
    \E w \in Writers :
        /\ inv[w].conflicts = MaxRetries + 1
        /\ inv[w].retries = MaxRetries
        /\ inv[w].err = "conflict"

\* C4: an operation raises only what the API raised; on a 404 get_project
\* returns None, project_exists False, delete_project returns without issuing
\* a DELETE, and list_project_names returns no names.
C4_AbsenceIsNotAnError ==
    \A w \in Writers :
        /\ inv[w].err \in {"api", "not_found"} => inv[w].faulted
        /\ inv[w].absent =>
            /\ inv[w].err = "none"
            /\ inv[w].touched = {}
            /\ inv[w].op = "get_project" => inv[w].out = "None"
            /\ inv[w].op = "project_exists" => inv[w].out = "False"
            /\ inv[w].op = "delete_project" => inv[w].out = "None" /\ inv[w].dels = 0
            /\ inv[w].op = "list_project_names" => inv[w].out = "names" /\ inv[w].names = {}

C4_Witness ==
    \E a, b \in Writers :
        /\ inv[a].op = "get_project" /\ inv[a].absent /\ inv[a].pc = "done"
        /\ inv[b].op = "delete_project" /\ inv[b].absent /\ inv[b].pc = "done"

\* C6: an update whose write raised (retries exhausted, or a transport error)
\* changed no file: the step that raises leaves every file as it was, and no
\* earlier attempt of that write was applied.
C6_FailedWriteStoresNothing ==
    \A w \in Writers :
        (inv[w].op = "update" /\ inv[w].out = "raised")
            => ~inv[w].stored /\ inv[w].touched = {}

C6_Witness ==
    \E w \in Writers :
        /\ inv[w].op = "update" /\ inv[w].err = "conflict" /\ inv[w].out = "raised"
        /\ Exists(inv[w].proj) /\ w \notin File(inv[w].proj).doc

C8_EnsureIdempotent ==
    \A w \in Writers :
        inv[w].sawBranch => inv[w].made = 0 /\ inv[w].pc \notin {"mkref", "readme"}

C8_Witness ==
    \E a, b \in Writers :
        /\ inv[a].op = "ensure_branch" /\ inv[a].pc = "done" /\ inv[a].made = 2
        /\ inv[b].op = "ensure_branch" /\ inv[b].pc = "done" /\ inv[b].sawBranch
        /\ commits = 1

\* C9: the calls of an invocation change the file of its own project only, and
\* its write is answered 409 only after another writer changed that project's
\* file.
C9_ProjectsIndependent ==
    \A w \in Writers :
        /\ inv[w].touched \subseteq {inv[w].proj}
        /\ inv[w].conflicts > 0 => inv[w].foreign > 0

C9_Witness ==
    \E a, b \in Writers :
        /\ inv[a].proj # inv[b].proj
        /\ inv[a].op = "update" /\ inv[a].stored /\ inv[a].pc = "select"
        /\ inv[b].op = "update" /\ inv[b].stored /\ inv[b].pc = "select"
        /\ inv[a].conflicts = 0 /\ inv[b].conflicts = 0

\* C10: delete_project issues at most one DELETE, after its read, and with the
\* token that read returned.
C10_DeleteUsesReadToken ==
    \A w \in Writers :
        /\ inv[w].dels <= 1
        /\ inv[w].dels = 1 => inv[w].readSha # NoSha /\ inv[w].delSha = inv[w].readSha
        /\ inv[w].pc = "delete" => inv[w].readSha # NoSha /\ inv[w].dels = 0

C10_Witness ==
    \E w \in Writers :
        /\ inv[w].op = "delete_project" /\ inv[w].pc = "done"
        /\ inv[w].dels = 1 /\ inv[w].out = "None" /\ ~Exists(inv[w].proj)

\* ------------------------------------------ get_all_projects, specification
\* The metadata branch holds a document for each project; workflow runs
\* enumerate the documents while others delete projects.
InitAll ==
    /\ branch = TRUE
    /\ commits = 3
    /\ files = [f \in Paths |->
                  IF f = FilePath("p") THEN [sha |-> 1, doc |-> {"A"}]
                                       ELSE [sha |-> 2, doc |-> {"B"}]]
    /\ clock = 2
    /\ acked = [p \in Projects |-> IF p = "p" THEN {"A"} ELSE {"B"}]
    /\ inv = [w \in Writers |-> Idle]
    /\ cycles = 0
    /\ fcall = NoCall
    /\ NoTaskService
    /\ NoMetadata
    /\ NoReviewerCheck
    /\ NoPureCall

StartAll(w) == Begin(w, {"get_all_projects", "delete_project"})

\* get_all_projects, the read of one listed name (get_project): its document
\* joins the result, or its file is gone and the name is skipped.
ReadAll(w) ==
    /\ inv[w].pc = "readall"
    /\ \E f \in FaultChoices :
        LET r == inv[w]
            name == NextListed(r.todo)
            res == ReadFile(GetContent(name, f))
            rest == r.todo \ {name}
            read == IF res = "found"
                    THEN [r EXCEPT !.docs = @ \cup {name}, !.todo = rest]
                    ELSE [r EXCEPT !.skipped = @ \cup {name}, !.todo = rest]
        IN /\ inv' = [inv EXCEPT ![w] =
                CASE res = "raise" -> Raise(r, "api")
                  [] res = "none" /\ ~SkipsMissing(res) -> Raise(r, "not_found")
                  [] rest = {} -> Return(read, "documents")
                  [] OTHER -> read]
    /\ UNCHANGED <<branch, commits, files, clock, acked, cycles, fcall, taskVars, syncVars, reviewerVars, pureVars>>

NextAll ==
    \E w \in Writers :
        \/ StartAll(w)
        \/ List(w)
        \/ ReadAll(w)
        \/ DelRead(w)
        \/ Delete(w)
        \/ Finish(w)

SpecAll == InitAll /\ [][NextAll]_vars

\* C11: get_all_projects tolerates a file that disappears between the listing
\* and its read: the enumeration raises only when the API failed, and what it
\* returns is the documents of exactly the listed projects that still had a
\* file when they were read, the others being skipped.
C11_MissingFilesSkipped ==
    \A w \in Writers :
        (inv[w].op = "get_all_projects" /\ Ended(w)) =>
            /\ inv[w].err # "none" => inv[w].faulted
            /\ inv[w].out = "documents" =>
                  /\ inv[w].err = "none"
                  /\ inv[w].docs \cup inv[w].skipped = inv[w].names
                  /\ inv[w].docs \cap inv[w].skipped = {}

\* A listed project was deleted before it was read, and the document of the
\* other listed project was returned.
C11_Witness ==
    \E w \in Writers :
        /\ inv[w].op = "get_all_projects" /\ inv[w].pc = "done"
        /\ inv[w].out = "documents" /\ inv[w].err = "none"
        /\ inv[w].skipped # {} /\ inv[w].docs # {}
        /\ \A p \in inv[w].skipped : ~Exists(p)

\* ------------------------------------- get_file_from_branch, specification
InitFile ==
    /\ branch = FALSE
    /\ commits = 0
    /\ files = [f \in Paths |-> NoFile]
    /\ clock = 0
    /\ acked = [p \in Projects |-> {}]
    /\ inv = [w \in Writers |-> Idle]
    /\ cycles = 0
    /\ \E fp \in FilePathInputs, br \in Branches :
          fcall = [NoCall EXCEPT !.pc = "call", !.file_path = fp, !.branch = br]
    /\ NoTaskService
    /\ NoMetadata
    /\ NoReviewerCheck
    /\ NoPureCall

\* The gh process the call starts runs to its end.
RunGh ==
    /\ fcall.pc = "call"
    /\ \E proc \in GhOutcomes :
          fcall' = [fcall EXCEPT !.pc = "returned", !.proc = proc, !.calls = @ + 1]
    /\ UNCHANGED <<branch, commits, files, clock, acked, inv, cycles, taskVars, syncVars, reviewerVars, pureVars>>

\* get_file_from_branch returns or raises.
GetFile ==
    /\ fcall.pc = "returned"
    /\ fcall' = [fcall EXCEPT !.pc = "done",
                    !.result = GetFileFromBranch(fcall.file_path, fcall.branch, fcall.proc)]
    /\ UNCHANGED <<branch, commits, files, clock, acked, inv, cycles, taskVars, syncVars, reviewerVars, pureVars>>

NextFile == RunGh \/ GetFile

SpecFile == InitFile /\ [][NextFile]_vars

\* C5: a failure of the API call that is neither a 404 nor a conflict is raised
\* to the caller after the one call made: it is not retried and not returned
\* as None.
C5_OtherErrorsRaised ==
    (fcall.pc = "done" /\ ~fcall.proc.ok /\ fcall.proc.status \notin {404, 409})
        => fcall.result.kind = "raised" /\ fcall.calls = 1

\* ------------------------------------------------ TaskService, specification
\* The checklists of at most MaxTasks tasks, some of them checked.
Checklists ==
    UNION {[1..n -> {[description |-> d, is_completed |-> c] :
                        d \in {TaskDescriptions[i] : i \in 1..MaxTasks}, c \in BOOLEAN}] :
           n \in 0..MaxTasks}
OrderedChecklists ==
    {cl \in Checklists : \A i \in DOMAIN cl : cl[i].description = TaskDescriptions[i]}

InitTask ==
    /\ branch = FALSE
    /\ commits = 0
    /\ files = [f \in Paths |-> NoFile]
    /\ clock = 0
    /\ acked = [p \in Projects |-> {}]
    /\ inv = [w \in Writers |-> Idle]
    /\ cycles = 0
    /\ fcall = NoCall
    /\ checklist \in OrderedChecklists
    /\ before = checklist
    /\ pulls = [n \in PullNumbers |-> NoPull]
    /\ tcall = NoTaskCall
    /\ NoMetadata
    /\ NoReviewerCheck
    /\ NoPureCall

\* A pull request is opened for the project, from a branch that encodes a task
\* hash, a task index, or neither.
OpenPull(n) ==
    /\ tcall.pc = "idle"
    /\ pulls[n] = NoPull
    /\ \E h \in PullHashes, i \in PullIndices :
          pulls' = [pulls EXCEPT ![n] =
                      [number |-> n, state |-> "open", task_hash |-> h, task_index |-> i]]
    /\ UNCHANGED <<storeVars, fcall, syncVars, reviewerVars, pureVars, checklist, before, tcall>>

\* An open pull request is closed without merging.
ClosePull(n) ==
    /\ tcall.pc = "idle"
    /\ pulls[n].state = "open"
    /\ pulls' = [pulls EXCEPT ![n].state = "closed"]
    /\ UNCHANGED <<storeVars, fcall, syncVars, reviewerVars, pureVars, checklist, before, tcall>>

\* An open pull request is merged.
MergePull(n) ==
    /\ tcall.pc = "idle"
    /\ pulls[n].state = "open"
    /\ pulls' = [pulls EXCEPT ![n].state = "merged"]
    /\ UNCHANGED <<storeVars, fcall, syncVars, reviewerVars, pureVars, checklist, before, tcall>>

\* get_in_progress_tasks: one query of the open pull requests.
CallGetInProgressTasks ==
    /\ tcall.pc = "idle"
    /\ \E fault \in FaultChoices :
        LET resp == QueryOpenPrs(pulls, fault)
            sets == GetInProgressTasks(resp)
        IN tcall' = [tcall EXCEPT !.op = "next", !.failed = fault,
                        !.seen = {pr.number : pr \in resp.prs},
                        !.raised = sets.raised,
                        !.skip_indices = sets.indices, !.skip_hashes = sets.hashes,
                        !.pc = IF sets.raised THEN "done" ELSE "find"]
    /\ UNCHANGED <<storeVars, fcall, syncVars, reviewerVars, pureVars, checklist, before, pulls>>

\* find_next_available_task with the skip-sets just built.
CallFindNextAvailableTask ==
    /\ tcall.pc = "find"
    /\ tcall' = [tcall EXCEPT
                    !.next = FindNextAvailableTask(checklist, tcall.skip_indices,
                                                   tcall.skip_hashes),
                    !.legacy = FindNextAvailableTaskInPlan(checklist, tcall.skip_indices),
                    !.pc = "done"]
    /\ UNCHANGED <<storeVars, fcall, syncVars, reviewerVars, pureVars, checklist, before, pulls>>

\* detect_orphaned_prs: one query of the open pull requests, then the report.
CallDetectOrphanedPrs ==
    /\ tcall.pc = "idle"
    /\ \E fault \in FaultChoices :
        LET resp == QueryOpenPrs(pulls, fault)
            orphaned == DetectOrphanedPrs(resp, checklist)
        IN /\ tcall' = [tcall EXCEPT !.op = "orphans", !.failed = fault,
                           !.seen = {pr.number : pr \in resp.prs},
                           !.orphaned = orphaned, !.pc = "done"]
           /\ pulls' = PullsAfterDetection(pulls, orphaned)
    /\ UNCHANGED <<storeVars, fcall, syncVars, reviewerVars, pureVars, checklist, before>>

\* The call has returned; the service is ready for the next one.
TaskReturn ==
    /\ tcall.pc = "done"
    /\ tcall' = NoTaskCall
    /\ UNCHANGED <<storeVars, fcall, syncVars, reviewerVars, pureVars, checklist, before, pulls>>

NextTask ==
    \/ \E n \in PullNumbers : OpenPull(n) \/ ClosePull(n) \/ MergePull(n)
    \/ CallGetInProgressTasks
    \/ CallFindNextAvailableTask
    \/ CallDetectOrphanedPrs
    \/ TaskReturn

SpecTask == InitTask /\ [][NextTask]_vars

\* ------------------------------------------------- TaskService, properties
Found == tcall.op = "next" /\ tcall.pc = "done" /\ ~tcall.raised
Unchecked(i) == ~checklist[i].is_completed
HashOf(i) == GenerateTaskHash(checklist[i].description)
Skipped(i) == i \in tcall.skip_indices \/ HashOf(i) \in tcall.skip_hashes

\* C12: find_next_available_task returns the first unchecked task of the
\* checklist whose index is not in the index skip-set and whose hash is not in
\* the hash skip-set, and nothing when there is no such task; the scan of the
\* plan file by task_management agrees when the hash skip-set is empty.
C12_FirstUnskippedTask ==
    Found =>
        /\ tcall.next = NoTask =>
              \A i \in DOMAIN checklist : ~Unchecked(i) \/ Skipped(i)
        /\ tcall.next # NoTask =>
              LET i == tcall.next[1]
              IN /\ i \in DOMAIN checklist
                 /\ Unchecked(i) /\ ~Skipped(i)
                 /\ \A j \in 1..(i - 1) : ~Unchecked(j) \/ Skipped(j)
                 /\ tcall.next = <<i, checklist[i].description, HashOf(i)>>
        /\ tcall.skip_hashes = {} => tcall.legacy[1] = tcall.next[1]

\* Three unchecked tasks and an open hash-based pull request for task 2: task 1
\* is returned.
C12_Witness ==
    /\ Found /\ ~tcall.failed
    /\ Len(checklist) = 3 /\ \A i \in DOMAIN checklist : Unchecked(i)
    /\ \E n \in PullNumbers :
          /\ pulls[n].state = "open" /\ pulls[n].task_hash = HashOf(2)
          /\ pulls[n].task_index = NoIndex
    /\ tcall.skip_hashes = {HashOf(2)} /\ tcall.skip_indices = {}
    /\ tcall.next = <<1, TaskDescriptions[1], HashOf(1)>>

\* The pull requests that claim task i: those carrying its hash, and those
\* carrying no hash and its index.
Claims(pr, i) ==
    \/ pr.task_hash # NoHash /\ pr.task_hash = HashOf(i)
    \/ pr.task_hash = NoHash /\ pr.task_index = i
ClaimedByOpen(i) ==
    \E n \in PullNumbers : pulls[n].state = "open" /\ Claims(pulls[n], i)

\* C13: only open pull requests keep a task from being selected: when the
\* query succeeds, the task returned is the first unchecked task that no open
\* pull request claims, so a task whose pull request was closed without
\* merging is returned again.
C13_ClosedPullFreesTask ==
    (Found /\ ~tcall.failed) =>
        \A i \in DOMAIN checklist :
            ( /\ Unchecked(i) /\ ~ClaimedByOpen(i)
              /\ \A j \in 1..(i - 1) : ~Unchecked(j) \/ ClaimedByOpen(j) )
            => tcall.next[1] = i

\* The task returned has a closed pull request and no open one.
C13_Witness ==
    /\ Found /\ ~tcall.failed /\ tcall.next # NoTask
    /\ \E n \in PullNumbers :
          pulls[n].state = "closed" /\ Claims(pulls[n], tcall.next[1])
    /\ ~ClaimedByOpen(tcall.next[1])

Detected == tcall.op = "orphans" /\ tcall.pc = "done"
HashBased(pr) == pr.task_hash # NoHash
IndexBased(pr) == pr.task_hash = NoHash /\ pr.task_index # NoIndex
CurrentHashes == {HashOf(i) : i \in DOMAIN checklist}

C16_HashNeverValidatedByIndex ==
    Detected =>
        \A n \in tcall.seen :
            (HashBased(pulls[n]) /\ pulls[n].task_hash \notin CurrentHashes)
                => n \in tcall.orphaned

\* A hash-based pull request for position 2 with a stale hash is reported
\* while a valid index-based pull request for position 2 is open.
C16_Witness ==
    /\ Detected
    /\ \E n, m \in tcall.seen :
          /\ HashBased(pulls[n]) /\ pulls[n].task_hash \notin CurrentHashes
          /\ pulls[n].task_index = 2 /\ n \in tcall.orphaned
          /\ IndexBased(pulls[m]) /\ pulls[m].task_index = 2
          /\ 2 \in DOMAIN checklist /\ m \notin tcall.orphaned

\* C17: orphan detection only reports: the call changes no pull request, and
\* leaves the checklist and the stored metadata as they are.
C17_DetectionOnlyReports ==
    [][(tcall.pc = "idle" /\ tcall'.op = "orphans") =>
          /\ pulls' = pulls
          /\ checklist' = checklist
          /\ UNCHANGED storeVars]_vars

\* An orphaned pull request has been reported and is still open.
C17_Witness ==
    /\ Detected /\ tcall.orphaned # {}
    /\ \A n \in tcall.orphaned : pulls[n].state = "open"

\* --------------------------------------- sync_task_statuses, specification
\* The document as loaded: tasks indexed from 1 with whatever status was
\* stored, and no pull request yet.
StoredTasks ==
    UNION {{[i \in 1..n |-> [index |-> i, description |-> TaskDescriptions[i],
                             status |-> st[i]]] : st \in [1..n -> TaskStatuses]} :
           n \in 0..MaxTasks}
InitSync ==
    /\ branch = FALSE
    /\ commits = 0
    /\ files = [f \in Paths |-> NoFile]
    /\ clock = 0
    /\ acked = [p \in Projects |-> {}]
    /\ inv = [w \in Writers |-> Idle]
    /\ cycles = 0
    /\ fcall = NoCall
    /\ NoTaskService
    /\ \E tasks \in StoredTasks : project = [tasks |-> tasks, pull_requests |-> <<>>]
    /\ synced = NoSync
    /\ NoReviewerCheck
    /\ NoPureCall

Statuses(tasks) == [i \in DOMAIN tasks |-> tasks[i].status]
Used(field) == {project.pull_requests[k][field] : k \in DOMAIN project.pull_requests}

\* A pull request record is appended for a task: a first attempt or a retry.
\* Records are appended by the run that finalizes the pull request, so their
\* order in the list need not be the order of creation.
AddPullRequest ==
    /\ \E n \in PullNumbers \ Used("pr_number"), t \in Times \ Used("created_at"),
          i \in PullIndices \ {NoIndex} :
          project' = [project EXCEPT !.pull_requests =
                         Append(@, [task_index |-> i, pr_number |-> n,
                                    pr_state |-> "open", created_at |-> t])]
    /\ synced' = NoSync
    /\ UNCHANGED <<storeVars, fcall, taskVars, reviewerVars, pureVars>>

\* The state of an open pull request is recorded as closed or merged.
UpdatePrState ==
    /\ \E k \in DOMAIN project.pull_requests, st \in {"closed", "merged"} :
          /\ project.pull_requests[k].pr_state = "open"
          /\ project' = [project EXCEPT !.pull_requests[k].pr_state = st]
    /\ synced' = NoSync
    /\ UNCHANGED <<storeVars, fcall, taskVars, reviewerVars, pureVars>>

\* project.sync_task_statuses()
Sync ==
    /\ project' = [project EXCEPT !.tasks = SyncTaskStatuses(@, project.pull_requests)]
    /\ synced' = [fresh |-> TRUE, twice |-> synced.fresh,
                  stored |-> IF synced.fresh THEN synced.stored ELSE Statuses(project.tasks),
                  before |-> Statuses(project.tasks)]
    /\ UNCHANGED <<storeVars, fcall, taskVars, reviewerVars, pureVars>>

NextSync == AddPullRequest \/ UpdatePrState \/ Sync

SpecSync == InitSync /\ [][NextSync]_vars

\* ---------------------------------------- sync_task_statuses, properties
Records(i) == {k \in DOMAIN project.pull_requests :
                  project.pull_requests[k].task_index = project.tasks[i].index}
CreatedLast(k, ks) ==
    \A j \in ks \ {k} :
        project.pull_requests[j].created_at < project.pull_requests[k].created_at

\* C18: after sync_task_statuses a task is pending when no pull request has
\* its index, and otherwise in_progress when the pull request created last for
\* it is open, completed when it is merged, in_progress when it is closed
\* without merge.
C18_StatusFromPullRequest ==
    synced.fresh =>
        \A i \in DOMAIN project.tasks :
            LET status == project.tasks[i].status
            IN /\ Records(i) = {} => status = "pending"
               /\ \A k \in Records(i) :
                     CreatedLast(k, Records(i)) =>
                        LET st == project.pull_requests[k].pr_state
                        IN /\ st = "open" => status = "in_progress"
                           /\ st = "merged" => status = "completed"
                           /\ st = "closed" => status = "in_progress"

\* A task whose only pull request is closed is in_progress, next to a task
\* without pull request that is pending.
C18_Witness ==
    /\ synced.fresh
    /\ \E i, j \in DOMAIN project.tasks :
          /\ Records(j) = {} /\ project.tasks[j].status = "pending"
          /\ \E k \in Records(i) :
                /\ Records(i) = {k}
                /\ project.pull_requests[k].pr_state = "closed"
                /\ project.tasks[i].status = "in_progress"
                /\ synced.before[i] = "pending"

\* C19: of several pull requests with the same task_index only the one with
\* the greatest created_at counts, whatever its number and its place in the
\* list: an older closed one and a newer merged one give completed.
C19_LatestCreatedDecides ==
    synced.fresh =>
        \A i \in DOMAIN project.tasks :
            \A k, j \in Records(i) :
                project.pull_requests[j].created_at < project.pull_requests[k].created_at
                    => project.tasks[i].status = StatusOf(project.pull_requests[k].pr_state)

\* The newer, merged pull request has the smaller number and comes first in
\* the list; the older one is closed; the task is completed.
C19_Witness ==
    /\ synced.fresh
    /\ \E i \in DOMAIN project.tasks :
          /\ Records(i) = {1, 2}
          /\ project.pull_requests[1].pr_state = "merged"
          /\ project.pull_requests[2].pr_state = "closed"
          /\ project.pull_requests[2].created_at < project.pull_requests[1].created_at
          /\ project.pull_requests[1].pr_number < project.pull_requests[2].pr_number
          /\ project.tasks[i].status = "completed"

WithStatuses(tasks, alt) == [i \in DOMAIN tasks |-> [tasks[i] EXCEPT !.status = alt[i]]]

\* C20: the statuses sync_task_statuses leaves are a function of pull_requests
\* alone: the same from whatever statuses were stored before, pending for a
\* task without pull request, and unchanged by a second sync.
C20_RecomputedFromScratch ==
    synced.fresh =>
        /\ \A alt \in [DOMAIN project.tasks -> TaskStatuses] :
              SyncTaskStatuses(WithStatuses(project.tasks, alt), project.pull_requests)
                  = project.tasks
        /\ \A i \in DOMAIN project.tasks :
              Records(i) = {} => project.tasks[i].status = "pending"
        /\ synced.twice => Statuses(project.tasks) = synced.before

\* A task stored as completed has no pull request: it is pending after the
\* sync, and after the sync that followed.
C20_Witness ==
    /\ synced.fresh /\ synced.twice
    /\ \E i \in DOMAIN project.tasks :
          /\ Records(i) = {}
          /\ synced.stored[i] = "completed"
          /\ project.tasks[i].status = "pending"

\* ------------------------------------ find_available_reviewer, specification
\* The reviewers of the configuration, each listed once with its limit, and the
\* open pull requests with the reviewer each is assigned to.
Configs ==
    {c \in UNION {[1..n -> [username : Usernames, max_open_prs : 0..MaxOpenPrs]] :
                     n \in 0..Cardinality(Usernames)} :
        \A i, j \in DOMAIN c : c[i].username = c[j].username => i = j}
Snapshots == UNION {[1..n -> [reviewer : Assignees]] : n \in 0..MaxSnapshot}

InitReviewer ==
    /\ branch = FALSE
    /\ commits = 0
    /\ files = [f \in Paths |-> NoFile]
    /\ clock = 0
    /\ acked = [p \in Projects |-> {}]
    /\ inv = [w \in Writers |-> Idle]
    /\ cycles = 0
    /\ fcall = NoCall
    /\ NoTaskService
    /\ NoMetadata
    /\ config \in Configs
    /\ snapshot \in Snapshots
    /\ rcall = NoReviewerCall
    /\ NoPureCall

\* The open pull requests are queried: they come in some order, or the query
\* fails and find_available_reviewer raises what the query raised.
QueryReviewerPrs ==
    /\ rcall.pc = "idle"
    /\ Len(rcall.runs) < 2
    /\ \E service \in Services, order \in Orders(Len(snapshot)), fault \in FaultChoices :
          /\ rcall.runs # <<>> => service = rcall.service
          /\ rcall' = [rcall EXCEPT !.service = service,
                          !.listing = Listing(snapshot, order),
                          !.raised = fault, !.result = NoResult,
                          !.pc = IF fault THEN "raised" ELSE "listed"]
    /\ UNCHANGED <<storeVars, fcall, taskVars, syncVars, pureVars, config, snapshot>>

\* find_available_reviewer returns (selected_reviewer, result).
FindReviewer ==
    /\ rcall.pc = "listed"
    /\ LET result == FindAvailableReviewer(rcall.service, config, rcall.listing)
       IN rcall' = [rcall EXCEPT !.result = result, !.runs = Append(@, result),
                       !.pc = "returned"]
    /\ UNCHANGED <<storeVars, fcall, taskVars, syncVars, pureVars, config, snapshot>>

\* The check is made again, on the same configuration and pull requests.
CheckAgain ==
    /\ rcall.pc \in {"returned", "raised"}
    /\ Len(rcall.runs) < 2
    /\ rcall' = [rcall EXCEPT !.pc = "idle", !.raised = FALSE]
    /\ UNCHANGED <<storeVars, fcall, taskVars, syncVars, pureVars, config, snapshot>>

NextReviewer == QueryReviewerPrs \/ FindReviewer \/ CheckAgain

SpecReviewer == InitReviewer /\ [][NextReviewer]_vars

\* ---------------------------------------- find_available_reviewer, properties
Returned == rcall.pc = "returned"
OpenCount(username) ==
    Cardinality({k \in DOMAIN snapshot : snapshot[k].reviewer = username})
WithCapacity == {i \in DOMAIN config : OpenCount(config[i].username) < config[i].max_open_prs}

C22_NoSelectionIffAllAtCapacity ==
    /\ Returned =>
          /\ rcall.result.selected_reviewer = NoSelection <=> WithCapacity = {}
          /\ rcall.result.all_at_capacity <=> rcall.result.selected_reviewer = NoSelection
    /\ rcall.pc = "raised" => rcall.raised

\* Both configured reviewers are at capacity: nothing is selected, the flag is
\* set, the call returned.
C22_Witness ==
    /\ Returned /\ Len(config) = 2 /\ WithCapacity = {}
    /\ \A i \in DOMAIN config : config[i].max_open_prs > 0
    /\ rcall.result.selected_reviewer = NoSelection
    /\ rcall.result.all_at_capacity

\* C23: two runs on the same configuration and the same open pull requests
\* select the same reviewer, in whatever order each run had them listed.
C23_SelectionDeterministic ==
    Len(rcall.runs) = 2 =>
        rcall.runs[1].selected_reviewer = rcall.runs[2].selected_reviewer

\* The second run had the pull requests listed in another order than the
\* first and selected the same reviewer, the first of two with capacity.
C23_Witness ==
    /\ Len(rcall.runs) = 2 /\ Returned
    /\ Len(snapshot) = 2 /\ rcall.listing[1].pr_number = 2
    /\ snapshot[1].reviewer # snapshot[2].reviewer
    /\ \A k \in DOMAIN snapshot : snapshot[k].reviewer \in Usernames
    /\ WithCapacity = {1, 2}
    /\ rcall.runs[1].selected_reviewer = config[1].username
    /\ rcall.runs[2].selected_reviewer = config[1].username

\* C30: the report has one entry per configured reviewer, in configuration
\* order, selection or not; has_capacity is (open count < max) in each; the
\* selected reviewer's entry has capacity and no entry before it has.
C30_ReportCoversEveryReviewer ==
    Returned =>
        LET status == rcall.result.reviewers_status
        IN /\ Len(status) = Len(config)
           /\ \A i \in DOMAIN config :
                 /\ status[i].username = config[i].username
                 /\ status[i].max_prs = config[i].max_open_prs
                 /\ status[i].open_count = OpenCount(config[i].username)
                 /\ status[i].has_capacity <=> (status[i].open_count < status[i].max_prs)
                 /\ rcall.result.selected_reviewer = config[i].username =>
                       /\ status[i].has_capacity
                       /\ \A j \in 1..(i - 1) : ~status[j].has_capacity

\* [alice: max 2 with 2 open, bob: max 1 with 0 open]: bob is selected, alice's
\* entry has no capacity, bob's has.
C30_Witness ==
    /\ Returned
    /\ config = <<[username |-> "alice", max_open_prs |-> 2],
                  [username |-> "bob", max_open_prs |-> 1]>>
    /\ OpenCount("alice") = 2 /\ OpenCount("bob") = 0
    /\ rcall.result.selected_reviewer = "bob"
    /\ ~rcall.result.reviewers_status[1].has_capacity
    /\ rcall.result.reviewers_status[2].has_capacity

\* The skip-set an open pull request goes to: that of the hashes when it
\* carries a hash, else that of the indices when it carries an index, else none.
SkipSetOf(pr) ==
    IF pr.task_hash # NoHash THEN "hashes"
    ELSE IF pr.task_index # NoIndex THEN "indices" ELSE "none"

\* C27: get_in_progress_tasks puts every open pull request into at most one
\* skip-set: the hash skip-set holds the hashes of the pull requests that carry
\* a hash, the index skip-set the indices of those that carry an index and no
\* hash; a pull request that carries neither adds nothing, and none adds to both.
C27_OneSkipSetPerPull ==
    (tcall.op = "next" /\ ~tcall.failed) =>
        /\ tcall.skip_hashes =
              {pulls[n].task_hash : n \in {m \in tcall.seen : SkipSetOf(pulls[m]) = "hashes"}}
        /\ tcall.skip_indices =
              {pulls[n].task_index : n \in {m \in tcall.seen : SkipSetOf(pulls[m]) = "indices"}}

\* Two open pull requests were classified: one carries a hash and an index and
\* added its hash only, the other carries neither and added nothing.
C27_Witness ==
    /\ tcall.op = "next" /\ ~tcall.failed /\ tcall.seen = PullNumbers
    /\ \E n, m \in tcall.seen :
          /\ pulls[n].task_hash # NoHash /\ pulls[n].task_index # NoIndex
          /\ SkipSetOf(pulls[m]) = "none"
          /\ tcall.skip_hashes = {pulls[n].task_hash}
    /\ tcall.skip_indices = {}

\* ---------------------------------------------- driver cycles, specification
\* A project whose checklist is revised once, by reordering its tasks or by
\* rewording one of them, while the driver runs its cycles: each cycle builds
\* the skip-sets, selects the next task and opens a pull request for it.
LegacyPulls ==
    {NoPull} \cup
    {[number |-> 41, state |-> "open", task_hash |-> NoHash, task_index |-> i] :
        i \in 1..MaxTasks}

InitCycle ==
    /\ branch = FALSE
    /\ commits = 0
    /\ files = [f \in Paths |-> NoFile]
    /\ clock = 0
    /\ acked = [p \in Projects |-> {}]
    /\ inv = [w \in Writers |-> Idle]
    /\ cycles = 0
    /\ fcall = NoCall
    /\ checklist \in OrderedChecklists
    /\ before = checklist
    /\ \E legacy \in LegacyPulls : pulls = [n \in PullNumbers |-> IF n = 41 THEN legacy ELSE NoPull]
    /\ tcall = NoTaskCall
    /\ NoMetadata
    /\ NoReviewerCheck
    /\ NoPureCall

\* The branch of the pull request opened for the selected task encodes the
\* task's hash and no index.
BranchIdentifiers(task) == [task_hash |-> task[3], task_index |-> NoIndex]

\* The cycle opens the pull request of the task it selected, and ends.
CreatePull(n) ==
    /\ tcall.op = "next" /\ tcall.pc = "done" /\ tcall.next # NoTask
    /\ pulls[n] = NoPull
    /\ LET ids == BranchIdentifiers(tcall.next)
       IN pulls' = [pulls EXCEPT ![n] =
                      [number |-> n, state |-> "open", task_hash |-> ids.task_hash,
                       task_index |-> ids.task_index]]
    /\ tcall' = NoTaskCall
    /\ UNCHANGED <<storeVars, fcall, syncVars, reviewerVars, pureVars, checklist, before>>

\* The tasks of the checklist are put in another order, descriptions unchanged.
Identity(n) == [i \in 1..n |-> i]
Reorder ==
    /\ tcall.pc = "idle"
    /\ before = checklist
    /\ \E order \in Orders(Len(checklist)) \ {Identity(Len(checklist))} :
          checklist' = [i \in DOMAIN checklist |-> checklist[order[i]]]
    /\ before' = checklist
    /\ UNCHANGED <<storeVars, fcall, syncVars, reviewerVars, pureVars, pulls, tcall>>

\* The description of task i is edited: replaced by another text, or only
\* changed in its whitespace.
Rewordings(description) ==
    {TaskDescriptions[MaxTasks + 1], description \o <<"\t">>}
EditTask(i) ==
    /\ tcall.pc = "idle"
    /\ before = checklist
    /\ i \in DOMAIN checklist
    /\ \E text \in Rewordings(checklist[i].description) :
          checklist' = [checklist EXCEPT ![i].description = text]
    /\ before' = checklist
    /\ UNCHANGED <<storeVars, fcall, syncVars, reviewerVars, pureVars, pulls, tcall>>

NextCycle ==
    \/ CallGetInProgressTasks
    \/ CallFindNextAvailableTask
    \/ \E n \in PullNumbers : CreatePull(n)
    \/ TaskReturn
    \/ CallDetectOrphanedPrs
    \/ \E n \in PullNumbers : ClosePull(n) \/ MergePull(n)
    \/ Reorder
    \/ \E i \in 1..MaxTasks : EditTask(i)

SpecCycle == InitCycle /\ [][NextCycle]_vars

\* -------------------------------------------------- driver cycles, properties
HashBefore(j) == GenerateTaskHash(before[j].description)
OpenFor(n, hash) ==
    pulls[n].state = "open" /\ HashBased(pulls[n]) /\ pulls[n].task_hash = hash
\* The checklist holds the tasks it held before, each as often, in another order.
Positions(cl, task) == {i \in DOMAIN cl : cl[i] = task}
Reordered ==
    /\ checklist # before
    /\ Len(checklist) = Len(before)
    /\ \A j \in DOMAIN before :
          Cardinality(Positions(checklist, before[j])) =
          Cardinality(Positions(before, before[j]))

\* C26: after the tasks of the checklist were put in another order with their
\* descriptions unchanged, a task with an open hash-based pull request is not
\* returned by find_next_available_task and its pull request is not reported
\* as orphaned.
C26_HashSurvivesReordering ==
    Reordered =>
        \A n \in PullNumbers, j \in DOMAIN before :
            OpenFor(n, HashBefore(j)) =>
                /\ (Found /\ ~tcall.failed) => tcall.next[2] # before[j].description
                /\ (Detected /\ ~tcall.failed) => n \notin tcall.orphaned

\* The first two tasks changed places while the second had an open hash-based
\* pull request: the task now second is returned.
C26_Witness ==
    /\ Reordered /\ Found /\ ~tcall.failed
    /\ Len(before) >= 2 /\ Unchecked(1) /\ Unchecked(2)
    /\ checklist[1] = before[2] /\ checklist[2] = before[1]
    /\ \E n \in PullNumbers : OpenFor(n, HashBefore(2))
    /\ tcall.next = <<2, before[1].description, HashBefore(1)>>

\* At most one open pull request claims each task of the checklist.
OpenPullsOf(i) == {n \in PullNumbers : pulls[n].state = "open" /\ Claims(pulls[n], i)}
AtMostOneOpenPerTask == \A i \in DOMAIN checklist : Cardinality(OpenPullsOf(i)) <= 1

\* C28: in a cycle whose query of the open pull requests succeeded, on a
\* checklist that was not changed, the task selected is claimed by no open pull
\* request, and the pull request the cycle opens for it leaves each task with
\* at most one open pull request.
C28_NoSecondOpenPull ==
    [][ (~tcall.failed /\ before = checklist) =>
          /\ (CallFindNextAvailableTask /\ tcall'.next # NoTask)
                => ~ClaimedByOpen(tcall'.next[1])
          /\ (\E n \in PullNumbers : CreatePull(n))
                => /\ ~ClaimedByOpen(tcall.next[1])
                   /\ AtMostOneOpenPerTask => AtMostOneOpenPerTask' ]_vars

\* The first pull request of a task was closed and a later cycle opened the
\* second one for the same task.
C28_Witness ==
    /\ tcall = NoTaskCall /\ before = checklist /\ Len(checklist) >= 1
    /\ pulls[41].state = "closed" /\ pulls[41].task_hash = HashOf(1)
    /\ pulls[42].state = "open" /\ pulls[42].task_hash = HashOf(1)
    /\ AtMostOneOpenPerTask

\* Task i was edited and its hash is no longer what it was.
Edited(i) ==
    /\ Len(checklist) = Len(before)
    /\ i \in DOMAIN checklist
    /\ checklist[i].description # before[i].description
    /\ \A j \in DOMAIN checklist \ {i} : checklist[j] = before[j]
    /\ HashOf(i) # HashBefore(i)

\* C29: after the description of a task was edited so that its hash changed,
\* an open hash-based pull request for the old description is reported as
\* orphaned, and the edited task is not skipped: it is returned when it is the
\* first unchecked task that is not skipped.
C29_EditOrphansPull ==
    \A i \in DOMAIN checklist :
        Edited(i) =>
            \A n \in PullNumbers :
                OpenFor(n, HashBefore(i)) =>
                    /\ (Detected /\ ~tcall.failed) => n \in tcall.orphaned
                    /\ (Found /\ ~tcall.failed /\ ~ClaimedByOpen(i)) =>
                          /\ ~Skipped(i)
                          /\ (Unchecked(i) /\ \A j \in 1..(i - 1) : ~Unchecked(j) \/ Skipped(j))
                                => tcall.next = <<i, checklist[i].description, HashOf(i)>>

\* The first task was reworded while its hash-based pull request was open,
\* and the next cycle selected it under its new hash.
C29_Witness ==
    /\ Edited(1) /\ Found /\ ~tcall.failed
    /\ \E n \in PullNumbers : OpenFor(n, HashBefore(1)) /\ n \in tcall.seen
    /\ tcall.skip_hashes = {HashBefore(1)}
    /\ tcall.next = <<1, TaskDescriptions[MaxTasks + 1], HashOf(1)>>


\* ------------------------------------- to_dict / from_dict, specification
\* The documents: tasks with any status, at most one pull request, possibly
\* for a task index that tasks does not have, with or without AI operations.
Datetimes == [at : {"2025-12-29T10:00:00"}, tz : {"utc", "naive"}]
AIOperations ==
    [type : {"PRCreation"}, model : {"claude-sonnet-4"}, cost_usd : {12},
     created_at : Datetimes, workflow_run_id : {111222},
     tokens_input : {0, 5000}, tokens_output : {0}, duration_seconds : {0}]
PullRequests ==
    [task_index : {1, 9}, pr_number : {42}, branch_name : {"claudestep/project/step-1"},
     reviewer : {"alice"}, pr_state : PullStates, created_at : Datetimes,
     title : {NoTitle, <<"Task", " ", "1">>},
     ai_operations : {<<>>} \cup {<<op>> : op \in AIOperations}]
TaskLists ==
    UNION {{[i \in 1..n |-> [index |-> i, description |-> TaskDescriptions[i],
                             status |-> TaskStatus(st[i])]] : st \in [1..n -> TaskStatuses]} :
           n \in 0..MaxTasks}
Documents ==
    [schema_version : {"2.0"}, project : {"test-project"}, last_updated : Datetimes,
     tasks : TaskLists,
     pull_requests : {<<>>} \cup {<<pr>> : pr \in PullRequests}]

InitDoc ==
    /\ branch = FALSE
    /\ commits = 0
    /\ files = [f \in Paths |-> NoFile]
    /\ clock = 0
    /\ acked = [p \in Projects |-> {}]
    /\ inv = [w \in Writers |-> Idle]
    /\ cycles = 0
    /\ fcall = NoCall
    /\ NoTaskService
    /\ NoMetadata
    /\ NoReviewerCheck
    /\ \E m \in Documents : doc = [NoDocument EXCEPT !.pc = "model", !.m = m]
    /\ hcall = NoHashCall

\* m.to_dict()
CallToDict ==
    /\ doc.pc = "model"
    /\ doc' = [doc EXCEPT !.dict = ToDict(doc.m), !.pc = "dict"]
    /\ UNCHANGED <<storeVars, fcall, taskVars, syncVars, reviewerVars, hcall>>

\* HybridProjectMetadata.from_dict(data)
CallFromDict ==
    /\ doc.pc = "dict"
    /\ doc' = [doc EXCEPT !.back = FromDict(doc.dict), !.pc = "back"]
    /\ UNCHANGED <<storeVars, fcall, taskVars, syncVars, reviewerVars, hcall>>

NextDoc == CallToDict \/ CallFromDict

SpecDoc == InitDoc /\ [][NextDoc]_vars

\* C24: from_dict(to_dict(m)) is m, for every document m: without tasks and
\* pull requests, or with a pull request for a task index tasks does not have.
C24_RoundTrip ==
    doc.pc = "back" => doc.back = doc.m

\* A document whose pull request names a task index that tasks does not have,
\* with a completed task, went through to_dict and from_dict.
C24_Witness ==
    /\ doc.pc = "back"
    /\ Len(doc.m.pull_requests) = 1 /\ Len(doc.m.tasks) = 2
    /\ doc.m.pull_requests[1].task_index \notin {doc.m.tasks[i].index : i \in DOMAIN doc.m.tasks}
    /\ doc.m.tasks[1].status = TaskStatus("completed")
    /\ doc.dict.tasks[1].status = "completed"
    /\ doc.back.pull_requests = doc.m.pull_requests

\* --------------------------------------- generate_task_hash, specification
MaxDescription == 4     \* fragments of a task description

Fragments == {"Add", "tests", " ", "\t"}
Descriptions == UNION {[1..n -> Fragments] : n \in 0..MaxDescription}

InitHash ==
    /\ branch = FALSE
    /\ commits = 0
    /\ files = [f \in Paths |-> NoFile]
    /\ clock = 0
    /\ acked = [p \in Projects |-> {}]
    /\ inv = [w \in Writers |-> Idle]
    /\ cycles = 0
    /\ fcall = NoCall
    /\ NoTaskService
    /\ NoMetadata
    /\ NoReviewerCheck
    /\ doc = NoDocument
    /\ \E d \in Descriptions : hcall = [NoHashCall EXCEPT !.pc = "call", !.description = d]

\* normalize(description): the description without its leading and trailing
\* whitespace, each run of whitespace inside replaced by one space.
Inner(d) == {i \in DOMAIN d : d[i] \notin Whitespace}
Kept(d) ==
    {i \in DOMAIN d :
        \/ d[i] \notin Whitespace
        \/ /\ \E a \in Inner(d) : a < i
           /\ \E b \in Inner(d) : i < b
           /\ d[i - 1] \notin Whitespace}
RECURSIVE Pick(_, _)
Pick(d, K) ==
    IF K = {} THEN <<>>
    ELSE LET i == CHOOSE x \in K : \A y \in K : x <= y
         IN <<IF d[i] \in Whitespace THEN " " ELSE d[i]>> \o Pick(d, K \ {i})
TrimmedAndCollapsed(d) == Pick(d, Kept(d))

\* TaskService.generate_task_hash(description)
HashDescription ==
    /\ hcall.pc = "call"
    /\ hcall' = [hcall EXCEPT !.hash = GenerateTaskHash(hcall.description), !.pc = "hashed"]
    /\ UNCHANGED <<storeVars, fcall, taskVars, syncVars, reviewerVars, doc>>

\* TaskService.generate_task_hash(normalize(description))
HashNormalized ==
    /\ hcall.pc = "hashed"
    /\ LET normalized == TrimmedAndCollapsed(hcall.description)
       IN hcall' = [hcall EXCEPT !.normalized = normalized,
                       !.hash_normalized = GenerateTaskHash(normalized), !.pc = "both"]
    /\ UNCHANGED <<storeVars, fcall, taskVars, syncVars, reviewerVars, doc>>

\* TaskService.generate_task_hash(description), once more
HashAgain ==
    /\ hcall.pc = "both"
    /\ hcall' = [hcall EXCEPT !.again = GenerateTaskHash(hcall.description), !.pc = "done"]
    /\ UNCHANGED <<storeVars, fcall, taskVars, syncVars, reviewerVars, doc>>

NextHash == HashDescription \/ HashNormalized \/ HashAgain

SpecHash == InitHash /\ [][NextHash]_vars

LowercaseHex == {HexDigits[i] : i \in DOMAIN HexDigits}

\* C25: generate_task_hash(d) = generate_task_hash(normalize(d)); the hash of
\* d is the same at every call and is 8 lowercase hexadecimal characters.
C25_HashOfNormalized ==
    hcall.pc = "done" =>
        /\ hcall.hash = hcall.hash_normalized
        /\ hcall.again = hcall.hash
        /\ Len(hcall.hash) = 8
        /\ \A i \in DOMAIN hcall.hash : hcall.hash[i] \in LowercaseHex

\* A description with leading whitespace and a tab between its two words has
\* the hash of its normalized form.
C25_Witness ==
    /\ hcall.pc = "done"
    /\ hcall.description = <<" ", "Add", "\t", "tests">>
    /\ hcall.normalized = <<"Add", " ", "tests">>
    /\ hcall.normalized # hcall.description
    /\ hcall.hash = hcall.hash_normalized

====
